---- MODULE Spec2Model ----
(***************************************************************************)
(* A model of photobook/function.py: the action tokens (generate_token,    *)
(* validate_token), the safe redirect (is_safe_url, redirect_back) and the *)
(* asynchronous mail dispatch (send_mail, _send_async_mail).               *)
(*                                                                         *)
(* Tokens are made by itsdangerous' TimedJSONWebSignatureSerializer.  Its  *)
(* constructor replaces expires_in = None by DEFAULT_EXPIRES_IN (3600 s),  *)
(* make_header writes iat = now and exp = iat + expires_in, and loads      *)
(* raises BadSignature on a signature mismatch and SignatureExpired when   *)
(* exp < now (a strict comparison on whole seconds).                       *)
(***************************************************************************)
EXTENDS Integers, Sequences, FiniteSets, TLC

VARIABLES
    users,      \* the user table: id -> [confirmed, password, email]
    now,        \* the server clock, whole seconds
    token,      \* the token in the emailed link: None until it is issued
    last,       \* the validate_token call the latest step made, if it was one
    succeeded,  \* the validate_token call that last succeeded, nothing since
    request,    \* redirect_back: the request's host URL, 'next' argument, referrer
    response,   \* redirect_back: the redirect it answered with
    callers,    \* send_mail: each calling request's position
    threads,    \* send_mail: the background threads started
    delivered,  \* send_mail: the messages the transport sent, in order
    sessions    \* concurrent validate_token calls: each request's position and session

vars == <<users, now, token, last, succeeded, request, response, callers, threads,
          delivered, sessions>>

----------------------------------------------------------------------------
\* Bounds of the model.

NumUsers == 2
MaxTtl == 1
MaxSteps == 2
MaxMails == 3
MaxRequests == 2

\* itsdangerous: TimedJSONWebSignatureSerializer.DEFAULT_EXPIRES_IN
DEFAULT_EXPIRES_IN == 3600

----------------------------------------------------------------------------
\* Values.

\* Python's None for an optional argument: the empty sequence; a present
\* value v is <<v>>.
None == << >>
Some(v) == <<v>>

UserIds == 1 .. NumUsers

\* Email addresses: one per user at registration and one nobody owns.
Emails == 1 .. (NumUsers + 1)

\* class Operations
CONFIRM == "confirm"
RESET_PASSWORD == "reset-password"
CHANGE_EMAIL == "change-email"
Operations == {CONFIRM, RESET_PASSWORD, CHANGE_EMAIL}

Passwords == {"p1"}

\* generate_password_hash of an optional value: one-way, so the stored value
\* is not the password.
Hash(p) == <<"hash">> \o p

\* The results of a validate_token call.
RTrue == "True"
RFalse == "False"
RRaise == "Raise"

----------------------------------------------------------------------------
\* The user table (photobook.models.User, reached through the objects that
\* function.py reads and assigns).

\* After registration: nobody confirmed, every user with an own password hash
\* and an own email address.
InitialUsers ==
    [u \in UserIds |-> [confirmed |-> FALSE, password |-> Hash(Some("p0")), email |-> u]]

\* User.query.filter_by(email=new_email): the rows with that email, the
\* subject's own row included (the filter names no user).
QueryFilterByEmail(usr, email) == {v \in DOMAIN usr : usr[v].email = email}

\* user.set_password(new_password), of photobook.models: it stores the hash of
\* the value it is given.  Given None, the hashing either raises or stores
\* the hash of nothing.
SetPasswordOutcomes(new_password) ==
    IF new_password = None THEN {"raise", "set"} ELSE {"set"}

----------------------------------------------------------------------------
\* generate_token

\* A serializer that takes an omitted lifetime for none at all.
SerializerExpiresIn_NoneIsZero(expire_in) ==
    IF expire_in = None THEN 0 ELSE expire_in[1]

\* Serializer(secret, expire_in): the lifetime the serializer signs with.
SerializerExpiresIn(expire_in) ==
    IF expire_in = None THEN DEFAULT_EXPIRES_IN ELSE expire_in[1]

\* s.dumps(data): the payload {'id', 'operation', **kwargs}, the header's iat
\* and exp, and a signature over both (sig: whether the signature matches).
\* expire_in records the argument the token was issued with; it is not part
\* of the token.
Dumps(u, operation, expire_in, extra, clock) ==
    [id |-> u, operation |-> operation, new_email |-> extra,
     iat |-> clock, exp |-> clock + SerializerExpiresIn(expire_in),
     sig |-> TRUE, expire_in |-> expire_in]

\* The extra payloads callers pass: new_email for a change of email (or
\* nothing at all), nothing for the other operations.
Extras(operation) ==
    IF operation = CHANGE_EMAIL THEN {None} \cup {Some(e) : e \in Emails} ELSE {None}

ExpireIns == {None} \cup {Some(n) : n \in 1 .. MaxTtl}

\* What a client can make of a token without the secret key: the same
\* payload with a later expiry; the signature no longer matches.
Tampered(t) == {[t EXCEPT !.exp = t.exp + DEFAULT_EXPIRES_IN, !.sig = FALSE]}

\* The tokens a request can present: the link's token, as issued or tampered
\* with.
Presentable == IF token = None THEN {} ELSE {token[1]} \cup Tampered(token[1])

----------------------------------------------------------------------------
\* validate_token

\* A loads that takes the token for expired in its last second.
Loads_ExpiredAtExp(t, clock) ==
    IF ~t.sig THEN "BadSignature"
    ELSE IF t.exp <= clock THEN "SignatureExpired"
    ELSE "data"

\* s.loads(token): BadSignature, SignatureExpired, or the payload.
Loads(t, clock) ==
    IF ~t.sig THEN "BadSignature"
    ELSE IF t.exp < clock THEN "SignatureExpired"
    ELSE "data"

\* A comparison that forgets the user.
Mismatch_OperationOnly(u, t, operation) == operation # t.operation

\* operation != data.get('operation') or user.id != data.get('id')
Mismatch(u, t, operation) == operation # t.operation \/ u # t.id

\* Where a call stands: its result, the subject user, the fields it assigned,
\* and the commits it made.
Outcome(result, user, mutations, commits) ==
    [result |-> result, user |-> user, mutations |-> mutations, commits |-> commits]

\* A confirmation that can be used once.
Confirm_Once(user) ==
    IF user.confirmed THEN Outcome(RFalse, user, << >>, 0)
    ELSE Outcome(RTrue, [user EXCEPT !.confirmed = TRUE], <<"confirmed">>, 0)

\* operation == Operations.CONFIRM: user.confirmed = True
Confirm(user) ==
    Outcome(RTrue, [user EXCEPT !.confirmed = TRUE], <<"confirmed">>, 0)

\* operation == Operations.RESET_PASSWORD: user.set_password(new_password).
\* sp is what set_password does.
ResetPassword(user, new_password, sp) ==
    IF sp = "raise" THEN Outcome(RRaise, user, << >>, 0)
    ELSE Outcome(RTrue, [user EXCEPT !.password = Hash(new_password)],
                 <<"password">>, 0)

\* A change of email that assigns before it looks for the address.
ChangeEmail_AssignFirst(usr, u, t) ==
    IF t.new_email = None THEN Outcome(RFalse, usr[u], << >>, 0)
    ELSE IF QueryFilterByEmail(usr, t.new_email[1]) # {} THEN
        Outcome(RFalse, [usr[u] EXCEPT !.email = t.new_email[1]], <<"email">>, 0)
    ELSE Outcome(RTrue, [usr[u] EXCEPT !.email = t.new_email[1]], <<"email">>, 0)

\* A change of email that does not look for the address.
ChangeEmail_NoQuery(usr, u, t) ==
    IF t.new_email = None THEN Outcome(RFalse, usr[u], << >>, 0)
    ELSE Outcome(RTrue, [usr[u] EXCEPT !.email = t.new_email[1]], <<"email">>, 0)

\* operation == Operations.CHANGE_EMAIL
ChangeEmail(usr, u, t) ==
    IF t.new_email = None THEN Outcome(RFalse, usr[u], << >>, 0)
    ELSE IF QueryFilterByEmail(usr, t.new_email[1]) # {} THEN
        Outcome(RFalse, usr[u], << >>, 0)
    ELSE Outcome(RTrue, [usr[u] EXCEPT !.email = t.new_email[1]], <<"email">>, 0)

\* The branch on the operation, up to the commit.
Dispatch(usr, u, t, operation, new_password, sp) ==
    IF operation = CONFIRM THEN Confirm(usr[u])
    ELSE IF operation = RESET_PASSWORD THEN ResetPassword(usr[u], new_password, sp)
    ELSE IF operation = CHANGE_EMAIL THEN ChangeEmail(usr, u, t)
    ELSE Outcome(RFalse, usr[u], << >>, 0)

\* validate_token(user, token, operation, new_password) at time clock on the
\* user table usr.
ValidateToken(usr, clock, u, t, operation, new_password, sp) ==
    IF Loads(t, clock) # "data" THEN Outcome(RFalse, usr[u], << >>, 0)
    ELSE IF Mismatch(u, t, operation) THEN Outcome(RFalse, usr[u], << >>, 0)
    ELSE LET d == Dispatch(usr, u, t, operation, new_password, sp) IN
         \* db.session.commit(); return True
         IF d.result = RTrue THEN [d EXCEPT !.commits = @ + 1] ELSE d

\* The new_password a caller passes: only the reset of a password has one,
\* and its caller may pass none.
NewPasswords(operation) ==
    IF operation = RESET_PASSWORD THEN {None} \cup {Some(p) : p \in Passwords}
    ELSE {None}

\* What identifies a call for a replay: the user, the token, the operation.
Call(u, t, operation) == [user |-> u, token |-> t, operation |-> operation]

NoCall == [called |-> FALSE]

----------------------------------------------------------------------------
\* The token service: requests issue and validate tokens while time passes.

\* The parts of the state a specification leaves alone.
NoTokens == (now = 0 /\ token = None /\ last = NoCall /\ succeeded = None)
NoRedirect ==
    (request = [host_url |-> None, next |-> None, referrer |-> None]
        /\ response = None)
NoMail == (callers = << >> /\ threads = << >> /\ delivered = << >>)

\* How many steps of the clock lead to n.
ClockSteps(n) == (n \div DEFAULT_EXPIRES_IN) + (n % DEFAULT_EXPIRES_IN)

Init ==
    /\ users = InitialUsers
    /\ now = 0
    /\ token = None
    /\ last = NoCall
    /\ succeeded = None
    /\ NoRedirect
    /\ NoMail
    /\ sessions = << >>

Tick ==
    /\ ClockSteps(now) < MaxSteps
    /\ \E d \in {1, DEFAULT_EXPIRES_IN} : now' = now + d
    /\ last' = NoCall
    /\ UNCHANGED <<users, token, succeeded, request, response, callers, threads,
                   delivered, sessions>>

generate_token ==
    /\ token = None
    /\ \E u \in UserIds, operation \in Operations, expire_in \in ExpireIns :
        \E extra \in Extras(operation) :
            token' = Some(Dumps(u, operation, expire_in, extra, now))
    /\ last' = NoCall
    /\ succeeded' = None
    /\ UNCHANGED <<users, now, request, response, callers, threads, delivered,
                   sessions>>

validate_token ==
    /\ \E u \in UserIds, t \in Presentable, operation \in Operations :
        \E new_password \in NewPasswords(operation) :
          \E sp \in SetPasswordOutcomes(new_password) :
            LET o == ValidateToken(users, now, u, t, operation, new_password, sp) IN
            /\ users' = [users EXCEPT ![u] = o.user]
            /\ last' = [called |-> TRUE, user |-> u, token |-> t,
                        operation |-> operation, new_password |-> new_password,
                        at |-> now, before |-> users, result |-> o.result,
                        mutations |-> o.mutations, commits |-> o.commits,
                        replay |-> succeeded = Some(Call(u, t, operation))]
            /\ succeeded' = IF o.result = RTrue THEN Some(Call(u, t, operation))
                             ELSE None
    /\ UNCHANGED <<now, token, request, response, callers, threads, delivered,
                   sessions>>

Next == Tick \/ generate_token \/ validate_token

Spec == Init /\ [][Next]_vars

----------------------------------------------------------------------------
\* Properties of the token service.

\* The last call presented a token as issued, for the user and the operation
\* it was issued for.
Matching ==
    /\ last.called
    /\ last.token.sig
    /\ last.user = last.token.id
    /\ last.operation = last.token.operation

\* The last call left the subject user as it was and committed nothing.
Untouched ==
    /\ users = last.before
    /\ last.mutations = << >>
    /\ last.commits = 0

\* The last call's operation had what it needs: a reset its new password, a
\* change of email a new address that no user owned.
Applicable ==
    /\ last.operation = RESET_PASSWORD => last.new_password # None
    /\ last.operation = CHANGE_EMAIL =>
        /\ last.token.new_email # None
        /\ \A v \in UserIds : last.before[v].email # last.token.new_email[1]

\* The field an operation assigns, and the value it assigns.
FieldOf(operation) ==
    IF operation = CONFIRM THEN "confirmed"
    ELSE IF operation = RESET_PASSWORD THEN "password"
    ELSE "email"

Assigned ==
    IF last.operation = CONFIRM THEN
        [last.before[last.user] EXCEPT !.confirmed = TRUE]
    ELSE IF last.operation = RESET_PASSWORD THEN
        [last.before[last.user] EXCEPT !.password = <<"hash">> \o last.new_password]
    ELSE [last.before[last.user] EXCEPT !.email = last.token.new_email[1]]

\* C1: validate_token is all-or-nothing.  A call that returns False leaves
\* every field of every user as it was, assigns nothing and commits nothing;
\* a call that returns True has assigned exactly the field of the requested
\* operation, on the subject user only, and committed exactly once.
C1_AllOrNothing ==
    last.called =>
        /\ last.result = RFalse => Untouched
        /\ last.result = RTrue =>
            /\ last.mutations = <<FieldOf(last.operation)>>
            /\ last.commits = 1
            /\ users = [last.before EXCEPT ![last.user] = Assigned]

C1_Witness ==
    /\ last.called
    /\ last.result = RTrue
    /\ last.operation = CHANGE_EMAIL
    /\ users[last.user].email # last.before[last.user].email

\* C2 as stated: a token issued with a ttl, presented for its user and its
\* operation, validates exactly when now < issuedAt + ttl.
C2_Original ==
    (Matching /\ last.token.expire_in # None) =>
        (last.result = RTrue <=> last.at < last.token.iat + last.token.expire_in[1])

\* C2, amended: a token issued with a ttl, presented for its user and its
\* operation, fails at every time now > issuedAt + ttl, and at every time
\* now <= issuedAt + ttl it validates when the operation has what it needs.
C2_ValidThroughExpiry ==
    (Matching /\ last.token.expire_in # None) =>
        LET expiresAt == last.token.iat + last.token.expire_in[1] IN
        /\ last.at > expiresAt => last.result = RFalse
        /\ (last.at <= expiresAt /\ Applicable) => last.result = RTrue

C2_Witness ==
    /\ Matching
    /\ last.token.expire_in # None
    /\ last.token.expire_in[1] > 0
    /\ last.at = last.token.iat + last.token.expire_in[1]
    /\ last.result = RTrue

\* C3: a call whose operation differs from the token's, or whose user is not
\* the token's, returns False and changes nothing, expired or not.
C3_MismatchFails ==
    (last.called /\ (last.operation # last.token.operation
                     \/ last.user # last.token.id)) =>
        (last.result = RFalse /\ Untouched)

C3_Witness ==
    /\ last.called
    /\ last.token.sig
    /\ last.at <= last.token.exp
    /\ last.operation = last.token.operation
    /\ last.user # last.token.id
    /\ last.result = RFalse

\* The last call presented an unexpired change-email token carrying a new
\* email, for its user.
ChangeEmailCall ==
    /\ Matching
    /\ last.at <= last.token.exp
    /\ last.operation = CHANGE_EMAIL
    /\ last.token.new_email # None

\* C4 as stated: the call fails, the email unchanged, if another user owns the
\* new email, and otherwise sets the email and succeeds.
C4_Original ==
    ChangeEmailCall =>
        IF \E v \in UserIds \ {last.user} :
               last.before[v].email = last.token.new_email[1]
        THEN last.result = RFalse /\ Untouched
        ELSE /\ last.result = RTrue
             /\ users[last.user].email = last.token.new_email[1]

\* C4, amended: the call fails, the email unchanged, if any user (the subject
\* included) owns the new email, and otherwise sets the email and succeeds.
C4_UniqueEmail ==
    ChangeEmailCall =>
        IF \E v \in UserIds : last.before[v].email = last.token.new_email[1]
        THEN last.result = RFalse /\ Untouched
        ELSE /\ last.result = RTrue
             /\ users[last.user].email = last.token.new_email[1]

C4_Witness ==
    /\ ChangeEmailCall
    /\ \E v \in UserIds \ {last.user} :
           last.before[v].email = last.token.new_email[1]
    /\ last.result = RFalse

\* C5: a reset-password token presented for its user without a new password
\* gets False, and no password is set and nothing committed.
C5_ResetNeedsPassword ==
    (Matching /\ last.at <= last.token.exp /\ last.operation = RESET_PASSWORD
        /\ last.new_password = None) =>
        (last.result = RFalse /\ Untouched)

\* C6 as stated: a call that repeats the call that succeeded last (same user,
\* token and operation), made before the token expires, succeeds.  (A reset
\* repeated without a new password is C5's case, left out here.)
C6_Original ==
    (last.called /\ last.replay /\ last.at <= last.token.exp
        /\ (last.operation = RESET_PASSWORD => last.new_password # None)) =>
        last.result = RTrue

\* C6, amended: such a repeat succeeds for confirm and for reset-password,
\* and fails for change-email, whose new email the subject now owns.
C6_Replay ==
    (last.called /\ last.replay /\ last.at <= last.token.exp
        /\ (last.operation = RESET_PASSWORD => last.new_password # None)) =>
        /\ last.operation \in {CONFIRM, RESET_PASSWORD} => last.result = RTrue
        /\ last.operation = CHANGE_EMAIL => last.result = RFalse

C6_Witness ==
    /\ last.called
    /\ last.replay
    /\ last.operation = CONFIRM
    /\ last.at > last.token.iat
    /\ last.result = RTrue

\* C8 as stated: a token issued with the ttl omitted never expires.
C8_Original ==
    (Matching /\ last.token.expire_in = None /\ Applicable) => last.result = RTrue

\* C8, amended: a token issued with the ttl omitted lives DEFAULT_EXPIRES_IN
\* seconds: it fails at every time now > issuedAt + DEFAULT_EXPIRES_IN, and
\* until then it validates when the operation has what it needs.
C8_DefaultExpiry ==
    (Matching /\ last.token.expire_in = None) =>
        /\ last.at > last.token.iat + DEFAULT_EXPIRES_IN => last.result = RFalse
        /\ (last.at <= last.token.iat + DEFAULT_EXPIRES_IN /\ Applicable) =>
               last.result = RTrue

C8_Witness ==
    /\ Matching
    /\ last.token.expire_in = None
    /\ last.at = last.token.iat + DEFAULT_EXPIRES_IN + 1
    /\ last.result = RFalse

----------------------------------------------------------------------------
\* is_safe_url, redirect_back

\* A URL is its scheme, its network location and its path, which is what
\* urlparse reads from the string; "" is a part the string does not have.
Url(scheme, netloc, path) == [scheme |-> scheme, netloc |-> netloc, path |-> path]

EmptyString == Url("", "", "")

\* request.host_url of the site, served over http or over https.
HostUrls == {Url("http", "host", "/"), Url("https", "host", "/")}

\* What a 'next' argument or a referrer can hold.
Targets ==
    { EmptyString,
      Url("", "", "/photo"),            \* /photo
      Url("http", "host", "/photo"),    \* http://host/photo
      Url("https", "host", "/photo"),   \* https://host/photo
      Url("http", "evil", "/photo"),    \* http://evil/photo
      Url("", "evil", "/photo"),        \* //evil/photo
      Url("ftp", "host", "/photo"),     \* ftp://host/photo
      Url("javascript", "", "alert") }  \* javascript:alert

\* urllib.parse: the schemes that urljoin resolves against a base.
UsesRelative == {"", "ftp", "http", "https"}
UsesNetloc == {"", "ftp", "http", "https"}

\* urljoin(base, url)
Urljoin(base, url) ==
    IF url = EmptyString THEN base
    ELSE LET scheme == IF url.scheme = "" THEN base.scheme ELSE url.scheme IN
         IF scheme # base.scheme \/ scheme \notin UsesRelative THEN url
         ELSE IF scheme \in UsesNetloc /\ url.netloc # "" THEN
             Url(scheme, url.netloc, url.path)
         ELSE Url(scheme, base.netloc, IF url.path = "" THEN base.path ELSE url.path)

\* A check of the network location alone.
is_safe_url_NetlocOnly(host_url, target) ==
    host_url.netloc = Urljoin(host_url, target).netloc

is_safe_url(host_url, target) ==
    LET ref_url == host_url
        test_url == Urljoin(host_url, target)
    IN  test_url.scheme \in {"http", "https"} /\ ref_url.netloc = test_url.netloc

\* url_for(default): the page of the default endpoint.
Fallback == Url("", "", "/")

\* not target
Falsy(target) == target = None \/ target = Some(EmptyString)

\* The loop of redirect_back over the candidates from position i on.
RECURSIVE RedirectFrom(_, _, _)
RedirectFrom(host_url, candidates, i) ==
    IF i > Len(candidates) THEN Fallback
    ELSE IF Falsy(candidates[i]) THEN RedirectFrom(host_url, candidates, i + 1)
    ELSE IF is_safe_url(host_url, candidates[i][1]) THEN candidates[i][1]
    ELSE RedirectFrom(host_url, candidates, i + 1)

InitRedirect ==
    /\ users = InitialUsers
    /\ NoTokens
    /\ NoMail
    /\ sessions = << >>
    /\ request \in [host_url : {Some(h) : h \in HostUrls},
                    next : {None} \cup {Some(t) : t \in Targets},
                    referrer : {None} \cup {Some(t) : t \in Targets}]
    /\ response = None

redirect_back ==
    /\ response = None
    /\ response' = Some(RedirectFrom(request.host_url[1],
                                     <<request.next, request.referrer>>, 1))
    /\ UNCHANGED <<users, now, token, last, succeeded, request, callers, threads,
                   delivered, sessions>>

SpecRedirect == InitRedirect /\ [][redirect_back]_vars

\* A candidate qualifies: it is not empty, and resolved against the host URL
\* it has scheme http or https and the host's network location.
Qualifies(candidate) ==
    /\ candidate # None
    /\ candidate[1] # EmptyString
    /\ LET resolved == Urljoin(request.host_url[1], candidate[1]) IN
       /\ resolved.scheme = "http" \/ resolved.scheme = "https"
       /\ resolved.netloc = request.host_url[1].netloc

\* C7: redirect_back answers with the first of 'next' and the referrer that
\* qualifies, and with the fallback when neither does.
C7_FirstSafeCandidate ==
    response # None =>
        response[1] = IF Qualifies(request.next) THEN request.next[1]
                      ELSE IF Qualifies(request.referrer) THEN request.referrer[1]
                      ELSE Fallback

C7_Witness ==
    /\ response # None
    /\ request.next # None
    /\ request.next[1].netloc = "evil"
    /\ request.referrer = Some(Url("", "", "/photo"))
    /\ response = request.referrer

----------------------------------------------------------------------------
\* send_mail, _send_async_mail

\* callers[c] is the c-th call of send_mail: where its request stands, and the
\* thread it started (0: none yet).  threads[t] is the t-th thread started:
\* the message it carries (the call's number) and where it stands.

InitMail ==
    /\ users = InitialUsers
    /\ NoTokens
    /\ NoRedirect
    /\ sessions = << >>
    /\ callers = << >>
    /\ threads = << >>
    /\ delivered = << >>

\* A request calls send_mail, which renders the message's two bodies.
send_mail_compose ==
    /\ Len(callers) < MaxMails
    /\ callers' = Append(callers, [pc |-> "composed", thr |-> 0])
    /\ UNCHANGED <<users, now, token, last, succeeded, request, response,
                   threads, delivered, sessions>>

\* thr = Thread(target=_send_async_mail, args=[app, message]); thr.start()
send_mail_start(c) ==
    /\ callers[c].pc = "composed"
    /\ threads' = Append(threads, [message |-> c, state |-> "started"])
    /\ callers' = [callers EXCEPT ![c] = [pc |-> "started", thr |-> Len(threads) + 1]]
    /\ UNCHANGED <<users, now, token, last, succeeded, request, response,
                   delivered, sessions>>

\* A send_mail that joins its thread before it returns.
send_mail_return_Joined(c) ==
    /\ callers[c].pc = "started"
    /\ threads[callers[c].thr].state = "done"
    /\ callers' = [callers EXCEPT ![c].pc = "returned"]
    /\ UNCHANGED <<users, now, token, last, succeeded, request, response,
                   threads, delivered, sessions>>

\* return thr
send_mail_return(c) ==
    /\ callers[c].pc = "started"
    /\ callers' = [callers EXCEPT ![c].pc = "returned"]
    /\ UNCHANGED <<users, now, token, last, succeeded, request, response,
                   threads, delivered, sessions>>

\* _send_async_mail: the thread enters the application context and calls
\* mail.send(message).
send_async_mail_send(t) ==
    /\ threads[t].state = "started"
    /\ threads' = [threads EXCEPT ![t].state = "sending"]
    /\ UNCHANGED <<users, now, token, last, succeeded, request, response,
                   callers, delivered, sessions>>

\* mail.send(message) returns: the transport has taken the message.  Nothing
\* makes it return.
send_async_mail_done(t) ==
    /\ threads[t].state = "sending"
    /\ threads' = [threads EXCEPT ![t].state = "done"]
    /\ delivered' = Append(delivered, threads[t].message)
    /\ UNCHANGED <<users, now, token, last, succeeded, request, response,
                   callers, sessions>>

NextMail ==
    \/ send_mail_compose
    \/ \E c \in DOMAIN callers : send_mail_start(c)
    \/ \E c \in DOMAIN callers : send_mail_return(c)
    \/ \E t \in DOMAIN threads : send_async_mail_send(t)
    \/ \E t \in DOMAIN threads : send_async_mail_done(t)

SpecMail == InitMail /\ [][NextMail]_vars

\* The threads a call started.
ThreadsOf(c) == {t \in DOMAIN threads : threads[t].message = c}

\* C9: every call of send_mail that has started its thread has started
\* exactly one, and can return whatever the threads are doing: its return
\* waits for no thread and no delivery.
C9_FireAndForget ==
    \A c \in DOMAIN callers :
        /\ callers[c].pc = "composed" => ThreadsOf(c) = {}
        /\ callers[c].pc \in {"started", "returned"} =>
               ThreadsOf(c) = {callers[c].thr}
        /\ callers[c].pc = "started" => ENABLED send_mail_return(c)

\* Two sends in flight at once with both callers back, and the later call's
\* message delivered while the earlier call's transport has not returned.
C9_Witness ==
    /\ Len(callers) >= 2
    /\ callers[1].pc = "returned"
    /\ callers[2].pc = "returned"
    /\ threads[callers[1].thr].state = "sending"
    /\ delivered = <<2>>

----------------------------------------------------------------------------
\* Concurrent validate_token calls.  Each request runs in a thread of its own
\* with a database session of its own: what it assigns to its user object
\* reaches the user table when it commits, and its query reads the table as
\* committed.  The table is the User Directory of the specification
\* (findByEmail, save): save stores what it is given.

\* sessions[i] is the i-th request: its user, its token, where it stands
\* (load, query, assign, commit, done) and its result.

InitRace ==
    /\ users = InitialUsers
    /\ NoTokens
    /\ NoRedirect
    /\ NoMail
    /\ sessions = << >>

\* The users with a request under way.
Busy == {sessions[i].user : i \in DOMAIN sessions}

\* A request arrives with the change-email token that generate_token made for
\* its user, each request for another user.
validate_begin ==
    /\ Len(sessions) < MaxRequests
    /\ \E u \in UserIds \ Busy, e \in Emails :
        sessions' = Append(sessions,
            [user |-> u, token |-> Dumps(u, CHANGE_EMAIL, None, Some(e), now),
             pc |-> "load", result |-> None])
    /\ UNCHANGED <<users, now, token, last, succeeded, request, response,
                   callers, threads, delivered>>

\* s.loads(token) and the comparison of the operation and the user.
validate_load(i) ==
    /\ sessions[i].pc = "load"
    /\ sessions' = [sessions EXCEPT ![i] =
          IF Loads(sessions[i].token, now) # "data"
             \/ Mismatch(sessions[i].user, sessions[i].token, CHANGE_EMAIL)
          THEN [@ EXCEPT !.pc = "done", !.result = Some(RFalse)]
          ELSE [@ EXCEPT !.pc = "query"]]
    /\ UNCHANGED <<users, now, token, last, succeeded, request, response,
                   callers, threads, delivered>>

\* new_email = data.get('new_email'); User.query.filter_by(...).first()
validate_query(i) ==
    /\ sessions[i].pc = "query"
    /\ sessions' = [sessions EXCEPT ![i] =
          IF sessions[i].token.new_email = None
             \/ QueryFilterByEmail(users, sessions[i].token.new_email[1]) # {}
          THEN [@ EXCEPT !.pc = "done", !.result = Some(RFalse)]
          ELSE [@ EXCEPT !.pc = "assign"]]
    /\ UNCHANGED <<users, now, token, last, succeeded, request, response,
                   callers, threads, delivered>>

\* user.email = new_email, on the session's object
validate_assign(i) ==
    /\ sessions[i].pc = "assign"
    /\ sessions' = [sessions EXCEPT ![i].pc = "commit"]
    /\ UNCHANGED <<users, now, token, last, succeeded, request, response,
                   callers, threads, delivered>>

\* The User Directory's save.
Save(usr, u, email) == [usr EXCEPT ![u].email = email]

\* db.session.commit(); return True
validate_commit(i) ==
    /\ sessions[i].pc = "commit"
    /\ users' = Save(users, sessions[i].user, sessions[i].token.new_email[1])
    /\ sessions' = [sessions EXCEPT ![i].pc = "done", ![i].result = Some(RTrue)]
    /\ UNCHANGED <<now, token, last, succeeded, request, response, callers,
                   threads, delivered>>

NextRace ==
    \/ validate_begin
    \/ \E i \in DOMAIN sessions : validate_load(i)
    \/ \E i \in DOMAIN sessions : validate_query(i)
    \/ \E i \in DOMAIN sessions : validate_assign(i)
    \/ \E i \in DOMAIN sessions : validate_commit(i)

SpecRace == InitRace /\ [][NextRace]_vars

\* C10: no two users hold the same email, whatever the interleaving of the
\* change-email validations.
C10_EmailsUnique ==
    \A u, v \in UserIds : u # v => users[u].email # users[v].email

====
